---- MODULE Spec2Model ----
(***************************************************************************)
(* lsai: the directory-summarisation engine of src/main.rs.                *)
(*                                                                         *)
(*   main          : collect_dir(path)? ; build_summary ; call_openai      *)
(*   collect_dir   : one FileInfo per child of the directory, fail fast    *)
(*   build_summary : one linear pass over the FileInfo slice, then the     *)
(*                   sort and truncation of the size candidates            *)
(*                                                                         *)
(* A name is a sequence of one-character strings, so that to_lowercase,    *)
(* starts_with, ends_with, contains and Path::extension are computed on    *)
(* the characters.  Option<T> is a sequence of length 0 (None) or 1 (Some).*)
(***************************************************************************)
EXTENDS Integers, Sequences, FiniteSets, TLC

VARIABLES
    path,       \* cli.path, the scanned directory
    fs,         \* the directory's children, in the order fs::read_dir yields them
    pc,         \* position of main
    idx,        \* collect_dir: children consumed so far from the read_dir iterator
    results,    \* collect_dir: the local Vec<FileInfo>
    files,      \* main: the value of collect_dir(&path)?  (None until it returned Ok)
    bi,         \* build_summary: entries consumed so far by the for loop
    acc,        \* build_summary: the local counters, flags, map and vectors
    summary,    \* main: the DirSummary (None until build_summary returned)
    requests,   \* number of POST requests sent to the language-model endpoint
    err         \* the error main returned with ("" when none)

vars == <<path, fs, pc, idx, results, files, bi, acc, summary, requests, err>>

----------------------------------------------------------------------------
(* Bounds of the model *)

\* Longest directory listing of the specifications that draw names.
MaxEntries == 3

\* Longest directory listing of the size-ranking specification.
MaxTopEntries == 6

----------------------------------------------------------------------------
(* Option<T> *)

None == <<>>

Some(x) == <<x>>

IsSome(o) == Len(o) = 1

Unwrap(o) == o[1]

----------------------------------------------------------------------------
(* Characters and strings *)

\* The characters the model's names use, in ascending byte order.
Alphabet ==
    << ".",
       "A", "B", "C", "D", "E", "F", "G", "H", "I", "J", "K", "L", "M",
       "N", "O", "P", "Q", "R", "S", "T", "U", "V", "W", "X", "Y", "Z",
       "_",
       "a", "b", "c", "d", "e", "f", "g", "h", "i", "j", "k", "l", "m",
       "n", "o", "p", "q", "r", "s", "t", "u", "v", "w", "x", "y", "z" >>

\* The byte rank of each character.
CodeOf == [c \in { Alphabet[i] : i \in DOMAIN Alphabet } |->
              CHOOSE i \in DOMAIN Alphabet : Alphabet[i] = c]

Code(c) == CodeOf[c]

\* char::to_lowercase on the ASCII range, for each character.
LowerOf == [c \in DOMAIN CodeOf |->
               IF CodeOf[c] >= 2 /\ CodeOf[c] <= 27 THEN Alphabet[CodeOf[c] + 27] ELSE c]

LowerChar(c) == LowerOf[c]

\* str::to_lowercase
ToLowercase(s) == [i \in 1..Len(s) |-> LowerChar(s[i])]

\* str::starts_with
StartsWith(s, p) == Len(p) <= Len(s) /\ SubSeq(s, 1, Len(p)) = p

\* str::ends_with
EndsWith(s, p) == Len(p) <= Len(s) /\ SubSeq(s, Len(s) - Len(p) + 1, Len(s)) = p

\* str::contains
Contains(s, p) ==
    \E i \in 0..(Len(s) - Len(p)) : SubSeq(s, i + 1, i + Len(p)) = p

\* Ord for String: lexicographic on the bytes (the order of BTreeMap<String, _>).
RECURSIVE StrLess(_, _)
StrLess(a, b) ==
    IF b = <<>> THEN FALSE
    ELSE IF a = <<>> THEN TRUE
    ELSE IF Code(a[1]) # Code(b[1]) THEN Code(a[1]) < Code(b[1])
    ELSE StrLess(Tail(a), Tail(b))

----------------------------------------------------------------------------
(* The directory on disk *)

\* What the filesystem reports for one child: its name, its file type
\* ("dir", "file", or "other" for a symlink, socket or device, whose metadata
\* is neither is_dir() nor is_file()), its length and its modification time.
Child(n, k, l, m) == [name |-> n, kind |-> k, len |-> l, mtime |-> m]

DotEnv == <<".", "e", "n", "v">>
KPemLog == <<"k", ".", "p", "e", "m", ".", "l", "o", "g">>
IdRsaLog == <<"I", "D", "_", "R", "S", "A", ".", "L", "O", "G">>
IdRsaPem == <<"i", "d", "_", "r", "s", "a", ".", "p", "e", "m">>
ASql == <<"a", ".", "S", "Q", "L">>
ADump == <<"a", ".", "d", "u", "m", "p">>
DotGit == <<".", "g", "i", "t">>
DotGitUpper == <<".", "G", "i", "t">>
DotGithub == <<".", "g", "i", "t", "h", "u", "b">>
RequirementsTxt ==
    <<"r", "e", "q", "u", "i", "r", "e", "m", "e", "n", "t", "s", ".", "t", "x", "t">>
RequirementTxt ==
    <<"r", "e", "q", "u", "i", "r", "e", "m", "e", "n", "t", ".", "t", "x", "t">>
PyProjectToml ==
    <<"P", "y", "P", "r", "o", "j", "e", "c", "t", ".", "t", "o", "m", "l">>
TrailingDot == <<"a", ".">>
Makefile == <<"M", "a", "k", "e", "f", "i", "l", "e">>

\* The children of the general specification: hidden and plain names, names
\* without '.', with a leading, a trailing and several '.', extensions in
\* both cases, files and directories.
Children ==
    { Child(DotEnv, "file", 0, Some(1)),
      Child(IdRsaLog, "file", 2, Some(1)),
      Child(KPemLog, "file", 2, Some(2)),
      Child(RequirementTxt, "file", 2, Some(2)),
      Child(RequirementTxt, "dir", 0, Some(1)),
      Child(DotGit, "dir", 0, Some(1)),
      Child(TrailingDot, "file", 0, None),
      Child(Makefile, "file", 1, Some(1)) }

\* The children of the specification of the suspicious list: names matching
\* Rule A, Rule B, both and neither, and a directory whose name matches.
SuspiciousChildren ==
    { Child(DotEnv, "file", 0, Some(1)),
      Child(IdRsaLog, "file", 2, Some(1)),
      Child(KPemLog, "file", 2, Some(2)),
      Child(IdRsaPem, "file", 1, Some(1)),
      Child(IdRsaPem, "dir", 0, Some(1)),
      Child(ASql, "file", 1, None),
      Child(ADump, "file", 1, Some(2)),
      Child(Makefile, "file", 1, Some(1)) }

\* The children of the specification of the notable flags: the names the
\* flags read and their near misses, as files and as directories.
NotableChildren ==
    { Child(DotGit, "dir", 0, Some(1)),
      Child(DotGit, "file", 1, Some(2)),
      Child(DotGitUpper, "dir", 0, Some(1)),
      Child(DotGithub, "dir", 0, Some(2)),
      Child(DotGithub, "file", 1, Some(1)),
      Child(RequirementsTxt, "file", 1, Some(2)),
      Child(RequirementTxt, "file", 2, Some(1)),
      Child(RequirementTxt, "dir", 0, Some(1)),
      Child(PyProjectToml, "file", 1, None) }

\* A directory holds no two children of the same name.
DistinctNames(s) ==
    \A i, j \in DOMAIN s : i # j => s[i].name # s[j].name

\* The listings of at most MaxEntries of the given children.
ListingsOf(children) ==
    { s \in UNION { [1..n -> children] : n \in 0..MaxEntries } : DistinctNames(s) }

\* The children of the size-ranking specification: child i is named "f" plus
\* the i-th lower-case letter, and is a file of 1 or 2 bytes or has no known
\* size: a node that is neither file nor directory at the odd places, a
\* directory at the even places.
TopName(i) == <<"f", Alphabet[28 + i]>>

TopShapes(i) ==
    { <<"file", 1, Some(1)>>, <<"file", 2, Some(2)>>,
      IF i % 2 = 1 THEN <<"other", 0, None>> ELSE <<"dir", 0, Some(1)>> }

TopListings ==
    UNION { { [i \in 1..n |-> Child(TopName(i), sh[i][1], sh[i][2], sh[i][3])] :
                sh \in { f \in [1..n -> UNION { TopShapes(i) : i \in 1..n }] :
                            \A i \in 1..n : f[i] \in TopShapes(i) } } :
            n \in 0..MaxTopEntries }

\* cli.path: the default of the command line.
Paths == { <<".">> }

----------------------------------------------------------------------------
(* collect_dir *)

\* PathExtension with the extension lower-cased at collection time.
PathExtensionLowered(name) ==
    LET dots == { i \in 1..Len(name) : name[i] = "." }
    IN  IF name = <<".", ".">> \/ dots = {} THEN None
        ELSE LET k == CHOOSE i \in dots : \A j \in dots : j <= i
             IN  IF k = 1 THEN None
                 ELSE Some(ToLowercase(SubSeq(name, k + 1, Len(name))))

\* Path::new(&file_name).extension(): None for "..", None without a '.',
\* None when the text before the last '.' is empty, otherwise the text after
\* the last '.'.
PathExtension(name) ==
    LET dots == { i \in 1..Len(name) : name[i] = "." }
    IN  IF name = <<".", ".">> \/ dots = {} THEN None
        ELSE LET k == CHOOSE i \in dots : \A j \in dots : j <= i
             IN  IF k = 1 THEN None ELSE Some(SubSeq(name, k + 1, Len(name)))

\* The FileInfo pushed for one child (lines 90-117).
FileInfoOf(c) ==
    [ name      |-> c.name,
      is_dir    |-> c.kind = "dir",
      extension |-> PathExtension(c.name),
      size      |-> IF c.kind = "file" THEN Some(c.len) ELSE None,
      modified  |-> c.mtime,
      is_hidden |-> StartsWith(c.name, <<".">>) ]

----------------------------------------------------------------------------
(* build_summary: the locals *)

\* size_entries.truncate(5)
TopN == 5

\* The locals of build_summary before the loop (lines 124-141).  ext_counts,
\* a BTreeMap<String, u32>, is the sequence of its (key, count) pairs in
\* iteration order.  The counters are u32; a listing of MaxEntries or
\* MaxTopEntries children is far from 2^32, so they are plain integers.
InitAcc ==
    [ total_entries  |-> 0,
      files_count    |-> 0,
      dirs_count     |-> 0,
      hidden_count   |-> 0,
      ext_counts     |-> <<>>,
      has_git        |-> FALSE,
      has_readme     |-> FALSE,
      has_license    |-> FALSE,
      has_dockerfile |-> FALSE,
      has_ci         |-> FALSE,
      has_rust       |-> FALSE,
      has_node       |-> FALSE,
      has_python     |-> FALSE,
      suspicious     |-> <<>>,
      size_entries   |-> <<>> ]

\* BTreeIncrement on a map that keeps insertion order.
InsertionOrderIncrement(m, k) ==
    IF \E i \in DOMAIN m : m[i].key = k
    THEN LET i == CHOOSE j \in DOMAIN m : m[j].key = k
         IN  [m EXCEPT ![i].count = @ + 1]
    ELSE Append(m, [key |-> k, count |-> 1])

\* *map.entry(k).or_insert(0) += 1 on a BTreeMap: the count of an existing
\* key is incremented in place, a new key is inserted at its sorted position.
BTreeIncrement(m, k) ==
    IF \E i \in DOMAIN m : m[i].key = k
    THEN LET i == CHOOSE j \in DOMAIN m : m[j].key = k
         IN  [m EXCEPT ![i].count = @ + 1]
    ELSE LET n == Cardinality({ i \in DOMAIN m : StrLess(m[i].key, k) })
         IN  SubSeq(m, 1, n) \o <<[key |-> k, count |-> 1]>> \o SubSeq(m, n + 1, Len(m))

----------------------------------------------------------------------------
(* build_summary: the body of the for loop *)

\* CountStep with the hidden count moved into the branch of the files.
CountStepHiddenFilesOnly(a, f) ==
    [a EXCEPT !.total_entries = @ + 1,
              !.hidden_count = IF f.is_hidden /\ ~f.is_dir THEN @ + 1 ELSE @]

\* Lines 144-148: every entry is counted, and counted as hidden when its
\* is_hidden flag is set.
CountStep(a, f) ==
    [a EXCEPT !.total_entries = @ + 1,
              !.hidden_count = IF f.is_hidden THEN @ + 1 ELSE @]

\* Lines 150-158: a directory.
DirStep(a, f) ==
    [a EXCEPT !.dirs_count = @ + 1,
              !.has_ci = @ \/ f.name = DotGithub,
              !.has_git = @ \/ f.name = DotGit]

\* ExtStep without the to_lowercase.
ExtStepRawCase(a, f) ==
    IF IsSome(f.extension)
    THEN [a EXCEPT !.ext_counts = BTreeIncrement(@, Unwrap(f.extension))]
    ELSE a

\* Lines 162-165: the extension count.
ExtStep(a, f) ==
    IF IsSome(f.extension)
    THEN [a EXCEPT !.ext_counts = BTreeIncrement(@, ToLowercase(Unwrap(f.extension)))]
    ELSE a

\* Lines 167-173: the size candidates.
SizeStep(a, f) ==
    IF IsSome(f.size)
    THEN [a EXCEPT !.size_entries = Append(@, [name |-> f.name, bytes |-> Unwrap(f.size)])]
    ELSE a

Readme == <<"r", "e", "a", "d", "m", "e">>
License == <<"l", "i", "c", "e", "n", "s", "e">>
Dockerfile == <<"d", "o", "c", "k", "e", "r", "f", "i", "l", "e">>
CargoToml == <<"c", "a", "r", "g", "o", ".", "t", "o", "m", "l">>
PackageJson == <<"p", "a", "c", "k", "a", "g", "e", ".", "j", "s", "o", "n">>
PyprojectToml ==
    <<"p", "y", "p", "r", "o", "j", "e", "c", "t", ".", "t", "o", "m", "l">>

\* NotableStep with the Python rule reading "requirements.txt".
NotableStepRequirements(a, f) ==
    LET lower == ToLowercase(f.name)
    IN  [a EXCEPT
            !.has_readme = @ \/ lower = Readme \/ StartsWith(lower, Readme \o <<".">>),
            !.has_license = @ \/ lower = License \/ StartsWith(lower, License \o <<".">>),
            !.has_dockerfile = @ \/ lower = Dockerfile,
            !.has_rust = @ \/ lower = CargoToml,
            !.has_node = @ \/ lower = PackageJson,
            !.has_python = @ \/ lower = PyprojectToml \/ lower = RequirementsTxt]

\* Lines 176-196: the notable files, tested on the lower-cased name.
NotableStep(a, f) ==
    LET lower == ToLowercase(f.name)
    IN  [a EXCEPT
            !.has_readme = @ \/ lower = Readme \/ StartsWith(lower, Readme \o <<".">>),
            !.has_license = @ \/ lower = License \/ StartsWith(lower, License \o <<".">>),
            !.has_dockerfile = @ \/ lower = Dockerfile,
            !.has_rust = @ \/ lower = CargoToml,
            !.has_node = @ \/ lower = PackageJson,
            !.has_python = @ \/ lower = PyprojectToml \/ lower = RequirementTxt]

\* Line 199: the first suspicious test.
RuleA(lower) ==
    \/ lower = DotEnv
    \/ EndsWith(lower, <<".", "p", "e", "m">>)
    \/ Contains(lower, <<"i", "d", "_", "r", "s", "a">>)

\* Line 202: the second suspicious test.
RuleB(lower) ==
    \/ EndsWith(lower, <<".", "l", "o", "g">>)
    \/ EndsWith(lower, <<".", "d", "u", "m", "p">>)
    \/ EndsWith(lower, <<".", "s", "q", "l">>)

\* SuspiciousStep with an else between the two ifs.
SuspiciousStepElse(a, f) ==
    LET lower == ToLowercase(f.name)
    IN  IF RuleA(lower) \/ RuleB(lower)
        THEN [a EXCEPT !.suspicious = Append(@, f.name)]
        ELSE a

\* SuspiciousStep with one if, and one push, for each pattern.
SuspiciousStepPerPattern(a, f) ==
    LET lower == ToLowercase(f.name)
        hits == << lower = DotEnv,
                   EndsWith(lower, <<".", "p", "e", "m">>),
                   Contains(lower, <<"i", "d", "_", "r", "s", "a">>),
                   EndsWith(lower, <<".", "l", "o", "g">>),
                   EndsWith(lower, <<".", "d", "u", "m", "p">>),
                   EndsWith(lower, <<".", "s", "q", "l">>) >>
        n == Cardinality({ i \in DOMAIN hits : hits[i] })
    IN  [a EXCEPT !.suspicious = @ \o [i \in 1..n |-> f.name]]

\* SuspiciousStep with the names pushed at the front of the list.
SuspiciousStepFront(a, f) ==
    LET lower == ToLowercase(f.name)
        s1 == IF RuleA(lower) THEN <<f.name>> \o a.suspicious ELSE a.suspicious
        s2 == IF RuleB(lower) THEN <<f.name>> \o s1 ELSE s1
    IN  [a EXCEPT !.suspicious = s2]

\* Lines 198-204: two ifs, no else between them.
SuspiciousStep(a, f) ==
    LET lower == ToLowercase(f.name)
        s1 == IF RuleA(lower) THEN Append(a.suspicious, f.name) ELSE a.suspicious
        s2 == IF RuleB(lower) THEN Append(s1, f.name) ELSE s1
    IN  [a EXCEPT !.suspicious = s2]

\* Lines 159-205: an entry that is not a directory.
FileStep(a, f) ==
    SuspiciousStep(
        NotableStep(
            SizeStep(
                ExtStep([a EXCEPT !.files_count = @ + 1], f), f), f), f)

\* Lines 143-206: one iteration of the loop.
Step(a, f) ==
    IF f.is_dir THEN DirStep(CountStep(a, f), f) ELSE FileStep(CountStep(a, f), f)

----------------------------------------------------------------------------
(* build_summary: after the loop *)

\* SortInsert of a sort that is not stable: e goes before the elements of
\* equal bytes.
SortInsertUnstable(sorted, e) ==
    LET n == Cardinality({ i \in DOMAIN sorted : sorted[i].bytes > e.bytes })
    IN  SubSeq(sorted, 1, n) \o <<e>> \o SubSeq(sorted, n + 1, Len(sorted))

\* The place slice::sort_by, a stable sort, gives e among the elements
\* already ordered by |a, b| b.bytes.cmp(&a.bytes): behind every element
\* that does not compare greater, so behind those of equal bytes.
SortInsert(sorted, e) ==
    LET n == Cardinality({ i \in DOMAIN sorted : sorted[i].bytes >= e.bytes })
    IN  SubSeq(sorted, 1, n) \o <<e>> \o SubSeq(sorted, n + 1, Len(sorted))

\* size_entries.sort_by(|a, b| b.bytes.cmp(&a.bytes))
RECURSIVE SortByBytesDesc(_)
SortByBytesDesc(s) ==
    IF s = <<>> THEN <<>>
    ELSE SortInsert(SortByBytesDesc(SubSeq(s, 1, Len(s) - 1)), s[Len(s)])

\* Vec::truncate
Truncate(s, n) == IF Len(s) > n THEN SubSeq(s, 1, n) ELSE s

\* Lines 208-235: the DirSummary built from the locals.
Finish(p, a) ==
    [ path |-> p,
      counts |-> [ total_entries |-> a.total_entries,
                   files |-> a.files_count,
                   dirs |-> a.dirs_count,
                   hidden |-> a.hidden_count ],
      language_hints |-> a.ext_counts,
      notable_files |-> [ has_git |-> a.has_git,
                          has_readme |-> a.has_readme,
                          has_license |-> a.has_license,
                          has_dockerfile |-> a.has_dockerfile,
                          has_ci |-> a.has_ci,
                          has_rust |-> a.has_rust,
                          has_node |-> a.has_node,
                          has_python |-> a.has_python ],
      suspicious |-> a.suspicious,
      top_file_by_size |-> Truncate(SortByBytesDesc(a.size_entries), TopN) ]

\* The locals after the loop has consumed the first n entries of fl.
RECURSIVE Fold(_, _)
Fold(fl, n) == IF n = 0 THEN InitAcc ELSE Step(Fold(fl, n - 1), fl[n])

\* build_summary(path, files) as a function of its arguments.
BuildSummary(p, fl) == Finish(p, Fold(fl, Len(fl)))

----------------------------------------------------------------------------
(* main *)

InitWith(listings) ==
    /\ path \in Paths
    /\ fs \in listings
    /\ pc = "open"
    /\ idx = 0
    /\ results = <<>>
    /\ files = None
    /\ bi = 0
    /\ acc = InitAcc
    /\ summary = None
    /\ requests = 0
    /\ err = ""

Init == InitWith(ListingsOf(Children))

InitSuspicious == InitWith(ListingsOf(SuspiciousChildren))

InitNotable == InitWith(ListingsOf(NotableChildren))

InitTop == InitWith(TopListings)

\* Line 86: fs::read_dir(path) opened the directory.
ReadDirOk ==
    /\ pc = "open"
    /\ pc' = "read"
    /\ UNCHANGED <<path, fs, idx, results, files, bi, acc, summary, requests, err>>

\* Line 86: fs::read_dir(path)? failed (missing, not a directory, unreadable);
\* the error leaves collect_dir and, by line 304, main.
ReadDirFail ==
    /\ pc = "open"
    /\ pc' = "exit_err"
    /\ err' = "FilesystemError"
    /\ UNCHANGED <<path, fs, idx, results, files, bi, acc, summary, requests>>

\* Line 87: the iterator yielded an error for the next child; results is
\* dropped with the frame of collect_dir.
EntryFail ==
    /\ pc = "read"
    /\ idx < Len(fs)
    /\ pc' = "exit_err"
    /\ err' = "FilesystemError"
    /\ results' = <<>>
    /\ UNCHANGED <<path, fs, idx, files, bi, acc, summary, requests>>

\* MetadataFail of a tolerant collector: the child is skipped.
MetadataSkip ==
    /\ pc = "read"
    /\ idx < Len(fs)
    /\ idx' = idx + 1
    /\ UNCHANGED <<path, fs, pc, results, files, bi, acc, summary, requests, err>>

\* Line 88: entry.metadata()? failed for the next child.
MetadataFail ==
    /\ pc = "read"
    /\ idx < Len(fs)
    /\ pc' = "exit_err"
    /\ err' = "FilesystemError"
    /\ results' = <<>>
    /\ UNCHANGED <<path, fs, idx, files, bi, acc, summary, requests>>

\* Lines 87-117: one iteration of the loop of collect_dir.
ReadEntry ==
    /\ pc = "read"
    /\ idx < Len(fs)
    /\ results' = Append(results, FileInfoOf(fs[idx + 1]))
    /\ idx' = idx + 1
    /\ UNCHANGED <<path, fs, pc, files, bi, acc, summary, requests, err>>

\* Line 120 and line 304: the iterator is exhausted, collect_dir returns
\* Ok(results) and main binds it to files.
CollectReturn ==
    /\ pc = "read"
    /\ idx = Len(fs)
    /\ files' = Some(results)
    /\ results' = <<>>
    /\ pc' = "build"
    /\ UNCHANGED <<path, fs, idx, bi, acc, summary, requests, err>>

\* Lines 143-206: the loop of build_summary takes the next entry.
BuildStep ==
    /\ pc = "build"
    /\ bi < Len(Unwrap(files))
    /\ acc' = Step(acc, Unwrap(files)[bi + 1])
    /\ bi' = bi + 1
    /\ UNCHANGED <<path, fs, pc, idx, results, files, summary, requests, err>>

\* Lines 208-235 and line 305: the loop is over; sort, truncate, return.
BuildReturn ==
    /\ pc = "build"
    /\ bi = Len(Unwrap(files))
    /\ summary' = Some(Finish(path, acc))
    /\ pc' = "report"
    /\ UNCHANGED <<path, fs, idx, results, files, bi, acc, requests, err>>

\* Lines 239-240: OPENAI_API_KEY is not set; no request is made.
ApiKeyMissing ==
    /\ pc = "report"
    /\ pc' = "exit_err"
    /\ err' = "MissingApiKey"
    /\ UNCHANGED <<path, fs, idx, results, files, bi, acc, summary, requests>>

\* Lines 250-296 and 328-331: the request is sent and an answer is printed.
RequestOk ==
    /\ pc = "report"
    /\ requests' = requests + 1
    /\ pc' = "exit_ok"
    /\ UNCHANGED <<path, fs, idx, results, files, bi, acc, summary, err>>

\* Lines 250-296: the request is sent and fails, or its answer is an error
\* status or holds no text.
RequestFail ==
    /\ pc = "report"
    /\ requests' = requests + 1
    /\ pc' = "exit_err"
    /\ err' = "ApiError"
    /\ UNCHANGED <<path, fs, idx, results, files, bi, acc, summary>>

Next ==
    \/ ReadDirOk
    \/ ReadDirFail
    \/ EntryFail
    \/ MetadataFail
    \/ ReadEntry
    \/ CollectReturn
    \/ BuildStep
    \/ BuildReturn
    \/ ApiKeyMissing
    \/ RequestOk
    \/ RequestFail

\* Directories of at most MaxEntries of the general children.
Spec == Init /\ [][Next]_vars

\* Directories of at most MaxEntries children whose names the suspicious
\* rules tell apart.
SpecSuspicious == InitSuspicious /\ [][Next]_vars

\* Directories of at most MaxEntries children whose names the notable flags
\* tell apart.
SpecNotable == InitNotable /\ [][Next]_vars

\* Directories of at most MaxTopEntries children, told apart by kind and size.
SpecTop == InitTop /\ [][Next]_vars

----------------------------------------------------------------------------
(* What the properties are stated with *)

Built == IsSome(summary)

\* The DirSummary main holds.
Sum == Unwrap(summary)

\* The entry sequence given to build_summary.
Entries == Unwrap(files)

Min(a, b) == IF a < b THEN a ELSE b

\* Number of occurrences of x in the list l.
Count(l, x) == Cardinality({ a \in DOMAIN l : l[a] = x })

\* Position of the entry named n in the entry sequence (names are distinct).
IndexOf(n) == CHOOSE i \in DOMAIN Entries : Entries[i].name = n

\* The positions of the '.' characters of a name.
Dots(n) == { i \in DOMAIN n : n[i] = "." }

\* Rule A and Rule B as the specification words them, on a lower-cased name.
MatchesRuleA(l) ==
    \/ l = <<".", "e", "n", "v">>
    \/ (Len(l) >= 4 /\ SubSeq(l, Len(l) - 3, Len(l)) = <<".", "p", "e", "m">>)
    \/ \E i \in 1..(Len(l) - 5) : SubSeq(l, i, i + 5) = <<"i", "d", "_", "r", "s", "a">>

MatchesRuleB(l) ==
    \E suffix \in { <<".", "l", "o", "g">>, <<".", "d", "u", "m", "p">>, <<".", "s", "q", "l">> } :
        Len(l) >= Len(suffix) /\ SubSeq(l, Len(l) - Len(suffix) + 1, Len(l)) = suffix

RulesMatched(n) ==
    (IF MatchesRuleA(ToLowercase(n)) THEN 1 ELSE 0)
        + (IF MatchesRuleB(ToLowercase(n)) THEN 1 ELSE 0)

----------------------------------------------------------------------------
(* C1 *)

\* C1: after every prefix of the pass of build_summary, and in the summary it
\* returns, total_entries = files + dirs and hidden <= total_entries, where
\* hidden is the number of entries taken so far, of either kind, whose
\* is_hidden flag is true.
C1_CountsConsistent ==
    /\ acc.total_entries = acc.files_count + acc.dirs_count
    /\ acc.hidden_count <= acc.total_entries
    /\ acc.total_entries = bi
    /\ IsSome(files) =>
         /\ acc.hidden_count = Cardinality({ i \in 1..bi : Entries[i].is_hidden })
         /\ acc.dirs_count = Cardinality({ i \in 1..bi : Entries[i].is_dir })
    /\ Built =>
         /\ Sum.counts.total_entries = Sum.counts.files + Sum.counts.dirs
         /\ Sum.counts.hidden <= Sum.counts.total_entries
         /\ Sum.counts.total_entries = Len(Entries)
         /\ Sum.counts.hidden
              = Cardinality({ i \in DOMAIN Entries : Entries[i].is_hidden })

\* A pass in the middle of a listing that has taken a hidden directory and a
\* file that is not hidden.
C1_Witness ==
    /\ pc = "build"
    /\ bi >= 2
    /\ bi < Len(Entries)
    /\ \E i \in 1..bi : Entries[i].is_dir /\ Entries[i].is_hidden
    /\ \E i \in 1..bi : ~Entries[i].is_dir /\ ~Entries[i].is_hidden

----------------------------------------------------------------------------
(* C2 *)

\* The non-directory entries of known size, in scan order.
Candidates == SelectSeq(Entries, LAMBDA f : ~f.is_dir /\ IsSome(f.size))

\* The place of candidate i in the stable descending order by bytes: behind
\* the candidates of more bytes and the earlier candidates of equal bytes.
Rank(c, i) ==
    1 + Cardinality({ k \in DOMAIN c :
                        \/ Unwrap(c[k].size) > Unwrap(c[i].size)
                        \/ (Unwrap(c[k].size) = Unwrap(c[i].size) /\ k < i) })

\* C2: top_file_by_size is the first min(5, n) elements of the stable
\* descending-by-bytes order of the n non-directory entries of known size:
\* its length is min(5, n), its bytes do not increase, every name is a file of
\* the input, and entries of equal bytes keep their scan order, also across
\* the cut at position 5.
C2_TopFilesStableTop5 ==
    Built =>
        LET c == Candidates
            t == Sum.top_file_by_size
        IN  /\ Len(t) = Min(5, Len(c))
            /\ \A i \in DOMAIN c :
                 Rank(c, i) <= 5 =>
                    t[Rank(c, i)] = [name |-> c[i].name, bytes |-> Unwrap(c[i].size)]
            /\ \A j \in 1..(Len(t) - 1) : t[j].bytes >= t[j + 1].bytes
            /\ \A j \in DOMAIN t :
                 \E i \in DOMAIN Entries :
                    /\ Entries[i].name = t[j].name
                    /\ ~Entries[i].is_dir
                    /\ Entries[i].size = Some(t[j].bytes)

\* A summary of more than five sized files, where the fifth and the sixth of
\* the order have equal bytes, a later file outranks an earlier one, and the
\* listing also holds a directory and an entry of unknown size.
C2_Witness ==
    /\ Built
    /\ Len(Candidates) > 5
    /\ \E i, k \in DOMAIN Candidates :
         /\ Rank(Candidates, i) = 5
         /\ Rank(Candidates, k) = 6
         /\ Candidates[i].size = Candidates[k].size
    /\ \E i, k \in DOMAIN Candidates : i < k /\ Rank(Candidates, k) < Rank(Candidates, i)
    /\ Sum.top_file_by_size[1].bytes > Sum.top_file_by_size[5].bytes

----------------------------------------------------------------------------
(* C3 *)

\* The positions of the non-directory entries that have an extension.
WithExtension == { i \in DOMAIN Entries : ~Entries[i].is_dir /\ IsSome(Entries[i].extension) }

LoweredExtension(i) == ToLowercase(Unwrap(Entries[i].extension))

RECURSIVE SumOfCounts(_)
SumOfCounts(m) == IF m = <<>> THEN 0 ELSE m[1].count + SumOfCounts(Tail(m))

\* C3: the keys of language_hints are exactly the distinct lower-cased
\* extensions of the non-directory entries that have one, each value is the
\* number of such entries with that lower-cased extension, and the values sum
\* to at most counts.files.
C3_LanguageHints ==
    Built =>
        LET h == Sum.language_hints
        IN  /\ { h[a].key : a \in DOMAIN h } = { LoweredExtension(i) : i \in WithExtension }
            /\ \A a, b \in DOMAIN h : a # b => h[a].key # h[b].key
            /\ \A a \in DOMAIN h :
                 h[a].count = Cardinality({ i \in WithExtension : LoweredExtension(i) = h[a].key })
            /\ SumOfCounts(h) <= Sum.counts.files

\* A summary where two files whose extensions differ only in case share one
\* key, and a directory with an extension of its own contributes none.
C3_Witness ==
    /\ Built
    /\ \E a \in DOMAIN Sum.language_hints : Sum.language_hints[a].count = 2
    /\ \E i, k \in WithExtension :
         /\ Entries[i].extension # Entries[k].extension
         /\ LoweredExtension(i) = LoweredExtension(k)
    /\ \E i \in DOMAIN Entries :
         /\ Entries[i].is_dir
         /\ IsSome(Entries[i].extension)
         /\ \A a \in DOMAIN Sum.language_hints :
              Sum.language_hints[a].key # ToLowercase(Unwrap(Entries[i].extension))

----------------------------------------------------------------------------
(* C4 *)

\* C4: a file whose lower-cased name matches Rule A and Rule B is in the
\* suspicious list exactly twice, a file matching exactly one rule exactly
\* once, and a file matching neither is not in it.
C4_OnceForEachMatchingRule ==
    Built =>
        \A i \in DOMAIN Entries :
            ~Entries[i].is_dir =>
                Count(Sum.suspicious, Entries[i].name) = RulesMatched(Entries[i].name)

\* A summary of a file matching both rules, a file matching one, and a file
\* matching none.
C4_Witness ==
    /\ Built
    /\ \A i \in DOMAIN Entries : ~Entries[i].is_dir
    /\ \E i, j, k \in DOMAIN Entries :
         /\ RulesMatched(Entries[i].name) = 2
         /\ Count(Sum.suspicious, Entries[i].name) = 2
         /\ RulesMatched(Entries[j].name) = 1
         /\ RulesMatched(Entries[k].name) = 0

----------------------------------------------------------------------------
(* C5 *)

\* C5, as claimed: a single file appears via at most one matching rule, so
\* that no name of a listing of distinct names occurs more than once in the
\* suspicious list.
C5_AtMostOnce ==
    Built => \A i \in DOMAIN Entries : Count(Sum.suspicious, Entries[i].name) <= 1

\* C5, amended: a file appears once for each rule it matches, so that no name
\* of a listing of distinct names occurs more than twice in the suspicious
\* list, and a name occurs twice only when it matches Rule A and Rule B.
C5_AtMostTwice ==
    Built =>
        \A i \in DOMAIN Entries :
            /\ Count(Sum.suspicious, Entries[i].name) <= 2
            /\ Count(Sum.suspicious, Entries[i].name) = 2 =>
                 /\ MatchesRuleA(ToLowercase(Entries[i].name))
                 /\ MatchesRuleB(ToLowercase(Entries[i].name))

\* A summary whose suspicious list holds one name twice, and a file that
\* matches Rule A by two of its patterns and is listed once.
C5_Witness ==
    /\ Built
    /\ \E a, b \in DOMAIN Sum.suspicious : a # b /\ Sum.suspicious[a] = Sum.suspicious[b]
    /\ \E i \in DOMAIN Entries :
         /\ Entries[i].name = IdRsaPem
         /\ Count(Sum.suspicious, IdRsaPem) = 1

----------------------------------------------------------------------------
(* C6 *)

\* C6: every element of the suspicious list is the name of a non-directory
\* entry, the elements are in the order of the entries they name, and a
\* directory is never listed, whatever its name matches.
C6_ScanOrder ==
    Built =>
        LET l == Sum.suspicious
        IN  /\ \A a \in DOMAIN l :
                 \E i \in DOMAIN Entries : Entries[i].name = l[a] /\ ~Entries[i].is_dir
            /\ \A a, b \in DOMAIN l : a < b => IndexOf(l[a]) <= IndexOf(l[b])
            /\ \A i \in DOMAIN Entries :
                 Entries[i].is_dir => Count(l, Entries[i].name) = 0

\* A summary whose suspicious list names two files, one of them twice, from
\* a listing that also holds a directory whose name matches a rule.
C6_Witness ==
    /\ Built
    /\ Len(Sum.suspicious) = 3
    /\ Sum.suspicious[1] # Sum.suspicious[3]
    /\ \E i \in DOMAIN Entries :
         Entries[i].is_dir /\ RulesMatched(Entries[i].name) > 0

----------------------------------------------------------------------------
(* C7 *)

\* main has entered build_summary, or gone past it.
BuilderInvoked ==
    \/ pc \in {"build", "report", "exit_ok"}
    \/ bi > 0
    \/ acc # InitAcc
    \/ Built
    \/ requests > 0

\* C7: when opening the directory, reading a child or reading its metadata
\* fails, collect_dir returns the error and none of the entries it had read,
\* the builder is not invoked, no summary is built and no request is sent;
\* the builder runs only on a listing that was read whole.
C7_FailFast ==
    /\ err = "FilesystemError" =>
         /\ pc = "exit_err"
         /\ files = None
         /\ results = <<>>
         /\ ~BuilderInvoked
    /\ BuilderInvoked =>
         /\ IsSome(files)
         /\ Len(Entries) = Len(fs)
         /\ \A i \in DOMAIN fs : Entries[i].name = fs[i].name

\* main left with the filesystem error after collect_dir had read two
\* children.
C7_Witness ==
    /\ err = "FilesystemError"
    /\ idx >= 2
    /\ idx < Len(fs)

----------------------------------------------------------------------------
(* C8 *)

\* The entries with their modification times replaced by those of g.
Retime(fl, g) == [i \in DOMAIN fl |-> [fl[i] EXCEPT !.modified = g[i]]]

\* Other modification times for a listing of n entries: none at all,
\* ascending and descending in scan order.
Retimings(n) ==
    { [i \in 1..n |-> None],
      [i \in 1..n |-> Some(i)],
      [i \in 1..n |-> Some(n - i)] }

\* C8: a second run of build_summary on the same path and the same entries
\* yields the summary main holds, also when the modification times of the
\* entries differ, and the language_hints of the summary are in ascending
\* order of their keys.
C8_Deterministic ==
    Built =>
        /\ BuildSummary(path, Entries) = Sum
        /\ \A g \in Retimings(Len(Entries)) : BuildSummary(path, Retime(Entries, g)) = Sum
        /\ \A a, b \in DOMAIN Sum.language_hints :
             a < b => StrLess(Sum.language_hints[a].key, Sum.language_hints[b].key)

\* A summary of entries with different modification times, whose extensions
\* were met in descending order of the keys.
C8_Witness ==
    /\ Built
    /\ Len(Sum.language_hints) >= 2
    /\ \E i, k \in WithExtension :
         /\ i < k
         /\ StrLess(LoweredExtension(k), LoweredExtension(i))
         /\ Entries[i].modified # Entries[k].modified

----------------------------------------------------------------------------
(* C9 *)

\* The records collect_dir has produced: those of its Vec and those it
\* returned.
Collected == IF IsSome(files) THEN Entries ELSE results

\* The text of a name behind its last '.'.
AfterLastDot(n) ==
    LET k == CHOOSE i \in Dots(n) : \A j \in Dots(n) : j <= i
    IN  [i \in 1..(Len(n) - k) |-> n[k + i]]

\* C9, as claimed: the extension is absent for a directory, for a name
\* without a '.' and for a name whose only '.' is its first character;
\* otherwise it is the text behind the last '.', in the case of the name.
C9_ExtensionAbsentForDirs ==
    \A i \in DOMAIN Collected :
        LET r == Collected[i]
        IN  IF r.is_dir \/ Dots(r.name) = {} \/ Dots(r.name) = {1}
            THEN r.extension = None
            ELSE r.extension = Some(AfterLastDot(r.name))

\* C9, amended: the extension is absent for a name without a '.' and for a
\* name whose only '.' is its first character; otherwise it is the text
\* behind the last '.', in the case of the name.  It is taken from the name
\* alone, for a directory as for a file.
C9_ExtensionFromNameAlone ==
    \A i \in DOMAIN Collected :
        LET r == Collected[i]
        IN  IF Dots(r.name) = {} \/ Dots(r.name) = {1}
            THEN r.extension = None
            ELSE r.extension = Some(AfterLastDot(r.name))

\* collect_dir has read a directory with an extension, a file whose
\* extension has capitals, and a hidden file without extension.
C9_Witness ==
    /\ \E i \in DOMAIN Collected :
         Collected[i].is_dir /\ IsSome(Collected[i].extension)
    /\ \E i \in DOMAIN Collected :
         /\ ~Collected[i].is_dir
         /\ IsSome(Collected[i].extension)
         /\ ToLowercase(Unwrap(Collected[i].extension)) # Unwrap(Collected[i].extension)
    /\ \E i \in DOMAIN Collected :
         Dots(Collected[i].name) = {1} /\ Collected[i].extension = None

----------------------------------------------------------------------------
(* C10 *)

\* C10: has_git iff a directory is named exactly ".git", has_ci iff a
\* directory is named exactly ".github", and has_python iff the lower-cased
\* name of a non-directory entry is "pyproject.toml" or "requirement.txt".
C10_NotableFlags ==
    Built =>
        /\ Sum.notable_files.has_git
             <=> \E i \in DOMAIN Entries :
                    Entries[i].is_dir /\ Entries[i].name = <<".", "g", "i", "t">>
        /\ Sum.notable_files.has_ci
             <=> \E i \in DOMAIN Entries :
                    Entries[i].is_dir /\ Entries[i].name = <<".", "g", "i", "t", "h", "u", "b">>
        /\ Sum.notable_files.has_python
             <=> \E i \in DOMAIN Entries :
                    /\ ~Entries[i].is_dir
                    /\ ToLowercase(Entries[i].name) \in
                         { <<"p", "y", "p", "r", "o", "j", "e", "c", "t", ".", "t", "o", "m", "l">>,
                           <<"r", "e", "q", "u", "i", "r", "e", "m", "e", "n", "t", ".", "t", "x", "t">> }

\* A summary of a file "requirements.txt", a file ".git" and a directory
\* ".github": has_python and has_git are false, has_ci is true.
C10_Witness ==
    /\ Built
    /\ \E i, j, k \in DOMAIN Entries :
         /\ Entries[i].name = RequirementsTxt /\ ~Entries[i].is_dir
         /\ Entries[j].name = DotGit /\ ~Entries[j].is_dir
         /\ Entries[k].name = DotGithub /\ Entries[k].is_dir
    /\ ~Sum.notable_files.has_python
    /\ ~Sum.notable_files.has_git
    /\ Sum.notable_files.has_ci

====
